---- MODULE Spec2Model ----
(***************************************************************************)
(* sqeezz: a registry of named references kept in named groups, a module   *)
(* level "current group" variable, builders that fill the registry, and    *)
(* group(), which wraps a callable so that the current group is switched   *)
(* for the duration of a call.                                             *)
(*                                                                         *)
(* The model follows src/sqeezz/__init__.py.  Call chains (asyncio tasks)  *)
(* share one thread: exactly one chain runs at a time and it gives up the  *)
(* thread only at an await of an asynchronous body.                        *)
(***************************************************************************)
EXTENDS Naturals, Sequences, FiniteSets

\* ------------------------------------------------------------------ bounds
\* deepest nesting of wrapped calls in one call chain
MaxDepth == 2
\* wrapped calls in flight at one time, over all call chains
MaxFrames == 3
\* number of add_named_ref calls in one run
MaxInserts == 2

\* ------------------------------------------------------------ value spaces
\* group names; "default" is the initial value of _group_name
Groups == {"default", "group_a", "group_b"}
\* reference names; "group_a" is a reference name that is also a group name
Names == {"value", "group_a"}
\* bound values (opaque references)
Values == {"A", "B"}
\* the groups callables are wrapped with
WrapGroups == {"group_a", "group_b"}
\* logical call chains (asyncio tasks)
Tasks == {"t1", "t2"}
\* builder handles (_Builder objects)
Handles == {"h1", "h2"}

NoGroup == "<none>"
Idle == "<idle>"
EmptyMap == [x \in {} |-> x]
NoExc == [kind |-> "none", val |-> ""]
NoLast == [op |-> "none"]
\* history of a (group, name) nothing was inserted under
NoWrite == [h |-> NoGroup, v |-> "", prev |-> "", live |-> FALSE]

VARIABLES
    refs,        \* _refs: group name -> (reference name -> value)
    group_name,  \* _group_name: the module-level current group
    handles,     \* _Builder objects: handle -> self.name (NoGroup: not created)
    stack,       \* per call chain, the wrapper frames in flight (innermost last)
    cur,         \* the call chain that holds the thread, or Idle
    raising,     \* the exception propagating in the running chain, or NoExc
    inserts,     \* number of add_named_ref calls so far (bounded)
    deferred,    \* deferred lookup handles: name -> group active when the
                 \* handle was created (NoGroup: not created)
    written,     \* history: (group, name) -> the latest insertion made there
    failed,      \* history: a failure has left a wrapper frame
    entered,     \* history: the call chains that have made a wrapped call
    last         \* history: what the latest step did and observed

regVars == <<refs, handles, inserts, written, deferred>>
scopeVars == <<group_name, stack, cur, raising, failed, entered>>
vars == <<refs, group_name, handles, stack, cur, raising, inserts, written, failed, entered,
          last, deferred>>

\* ------------------------------------------------------------- the registry

\* dict item assignment d[k] = v
Put(d, k, v) == [x \in DOMAIN d \cup {k} |-> IF x = k THEN v ELSE d[x]]

\* add_named_ref that assigns a new dict to the group on every call
AddNamedRefFresh(r, self_name, name, ref) ==
    Put(r, self_name, Put(EmptyMap, name, ref))

\* add_named_ref that keeps an entry that exists (dict.setdefault)
AddNamedRefKeep(r, self_name, name, ref) ==
    IF self_name \in DOMAIN r /\ name \in DOMAIN r[self_name] THEN r
    ELSE IF self_name \in DOMAIN r
         THEN Put(r, self_name, Put(r[self_name], name, ref))
         ELSE Put(r, self_name, Put(EmptyMap, name, ref))

\* add_named_ref that writes into the group that is current
AddNamedRefActive(r, self_name, name, ref) ==
    IF group_name \in DOMAIN r
    THEN Put(r, group_name, Put(r[group_name], name, ref))
    ELSE Put(r, group_name, Put(EmptyMap, name, ref))

\* _Builder.add_named_ref: create the group's dict when it is missing, then
\* assign the entry
AddNamedRefTo(r, self_name, name, ref) ==
    LET r1 == IF self_name \notin DOMAIN r THEN Put(r, self_name, EmptyMap) ELSE r
    IN  Put(r1, self_name, Put(r1[self_name], name, ref))

\* a lookup that yields a default (dict.get) where the key is missing
LookupDefault(r, g, name) ==
    IF g \in DOMAIN r /\ name \in DOMAIN r[g]
    THEN [kind |-> "value", val |-> r[g][name]]
    ELSE [kind |-> "value", val |-> ""]

\* _refs[g][name]: a KeyError carries the key that was missing
Lookup(r, g, name) ==
    IF g \notin DOMAIN r THEN [kind |-> "KeyError", val |-> g]
    ELSE IF name \notin DOMAIN r[g] THEN [kind |-> "KeyError", val |-> name]
    ELSE [kind |-> "value", val |-> r[g][name]]

\* using that reads the group "default" whatever the current group is
UsingDefault(name) == Lookup(refs, "default", name)

\* using(name): reads the module-level _group_name, then the registry
Using(name) == Lookup(refs, group_name, name)

\* ------------------------------------------------------------ group wrapper

\* the frame of one invocation of inner / async_inner: the wrapper's group,
\* the captured original_group_name and whether it is the async wrapper.
\* prior is history: the current group when the call was made; fresh is
\* history: the chain has not been seen to suspend since the call was made.
Frame(g, kind) ==
    [group |-> g, original |-> group_name, kind |-> kind, prior |-> group_name,
     fresh |-> TRUE]

\* a wrapper that leaves its own group behind
RestoredOwn(frame) == frame.group

\* _group_name = original_group_name
Restored(frame) == frame.original

Top(t) == stack[t][Len(stack[t])]
Pop(t) == [stack EXCEPT ![t] = SubSeq(stack[t], 1, Len(stack[t]) - 1)]
\* the wrapped calls in flight in the chains of S
RECURSIVE InFlight(_)
InFlight(S) ==
    IF S = {} THEN 0
    ELSE LET t == CHOOSE x \in S : TRUE
         IN Len(stack[t]) + InFlight(S \ {t})

\* the bounds leave room for one more wrapped call in chain t
CanNest(t) == Len(stack[t]) < MaxDepth /\ InFlight(Tasks) < MaxFrames

\* a chain that may also suspend between the statements of async_inner
NoSyncFrame(t) == \A i \in 1..Len(stack[t]) : stack[t][i].kind \notin {"sync", "entering"}
\* every frame of the chain is a coroutine in the body of its func: only
\* there can the chain await
AllAsync(t) == \A i \in 1..Len(stack[t]) : stack[t][i].kind = "async"
\* the chain is inside a wrapper that has captured original_group_name and
\* has not yet assigned _group_name (between lines 64 and 65)
Entering(t) == stack[t] # <<>> /\ Top(t).kind = "entering"

\* the registry test_async_group_context_switching builds before it runs
TestRefs ==
    AddNamedRefTo(AddNamedRefTo(EmptyMap, "group_a", "value", "A"),
                  "group_b", "value", "B")

Init ==
    /\ refs = TestRefs
    /\ group_name = "default"
    /\ handles = [h \in Handles |-> IF h = "h1" THEN "group_a" ELSE "group_b"]
    /\ stack = [t \in Tasks |-> <<>>]
    /\ cur = Idle
    /\ raising = NoExc
    /\ inserts = 2
    /\ deferred = [n \in Names |-> NoGroup]
    /\ written = [g \in Groups |-> [n \in Names |->
                    IF n = "value" /\ g = "group_a"
                    THEN [h |-> "h1", v |-> "A", prev |-> "", live |-> FALSE]
                    ELSE IF n = "value" /\ g = "group_b"
                    THEN [h |-> "h2", v |-> "B", prev |-> "", live |-> FALSE]
                    ELSE NoWrite]]
    /\ failed = FALSE
    /\ entered = {}
    /\ last = NoLast

\* history: the record of an insertion of ref under (g, name) through h:
\* the value it replaced, and whether a wrapped call of g was suspended
Written(h, g, name, ref) ==
    [h |-> h, v |-> ref,
     prev |-> written[g][name].v,
     live |-> cur = Idle /\ \E t \in Tasks : stack[t] # <<>> /\ Top(t).group = g]

\* return self: the handle a builder method hands back
ReturnSelf(h) == h

\* def builder(name='default'): the group a call addresses; NoGroup stands
\* for a call without argument
BuilderName(arg) == IF arg = NoGroup THEN "default" ELSE arg

\* builder(name): a new _Builder for the group
Builder(h, arg) ==
    /\ raising = NoExc
    /\ handles[h] = NoGroup
    /\ handles' = [handles EXCEPT ![h] = BuilderName(arg)]
    /\ last' = [op |-> "builder", h |-> h, arg |-> arg]
    /\ UNCHANGED <<refs, inserts, written, deferred>>
    /\ UNCHANGED scopeVars

\* handle.add_named_ref(name, ref)
AddNamedRef(h, name, ref) ==
    /\ raising = NoExc
    /\ handles[h] # NoGroup
    /\ inserts < MaxInserts
    /\ refs' = AddNamedRefTo(refs, handles[h], name, ref)
    /\ inserts' = inserts + 1
    /\ written' = [written EXCEPT ![handles[h]][name] = Written(h, handles[h], name, ref)]
    /\ last' = [op |-> "add_named_ref", group |-> handles[h], name |-> name, ref |-> ref,
                h |-> h, ret |-> ReturnSelf(h)]
    /\ UNCHANGED <<handles, deferred>>
    /\ UNCHANGED scopeVars

\* ref.__name__: "A" stands for a function or class named "value", "B" for
\* an object without __name__ (an instance, a string, a number)
HasName(ref) == ref = "A"
NameOf(ref) == "value"

\* add_ref that files a nameless value under a fallback name
AddRefAnon(r, self_name, ref) == AddNamedRefTo(r, self_name, NameOf(ref), ref)

\* _Builder.add_ref: self.add_named_ref(ref.__name__, ref); evaluating
\* ref.__name__ raises AttributeError before add_named_ref is called
AddRefTo(r, self_name, ref) ==
    IF HasName(ref) THEN AddNamedRefTo(r, self_name, NameOf(ref), ref) ELSE r

\* handle.add_ref(ref)
AddRef(h, ref) ==
    /\ raising = NoExc
    /\ handles[h] # NoGroup
    /\ inserts < MaxInserts
    /\ refs' = AddRefTo(refs, handles[h], ref)
    /\ raising' = IF HasName(ref) THEN NoExc
                  ELSE [kind |-> "AttributeError", val |-> "__name__"]
    /\ inserts' = IF HasName(ref) THEN inserts + 1 ELSE inserts
    /\ written' = IF HasName(ref)
                  THEN [written EXCEPT ![handles[h]][NameOf(ref)] =
                            Written(h, handles[h], NameOf(ref), ref)]
                  ELSE written
    /\ last' = [op |-> "add_ref", h |-> h, group |-> handles[h], ref |-> ref,
                before |-> refs,
                ret |-> IF HasName(ref) THEN ReturnSelf(h) ELSE NoGroup]
    /\ UNCHANGED <<handles, deferred>>
    /\ UNCHANGED <<group_name, stack, cur, failed, entered>>

\* importlib.import_module(ref_name): the module object, or
\* ModuleNotFoundError for an identifier that names no module
Importable == {"value"}
ImportModule(ref_name) ==
    IF ref_name \in Importable THEN [kind |-> "value", val |-> "M"]
    ELSE [kind |-> "ModuleNotFoundError", val |-> ref_name]

\* lazy_add_ref that makes the group's dict before it imports
LazyAddRefGroupFirst(r, self_name, ref_name) ==
    IF ImportModule(ref_name).kind = "value"
    THEN AddNamedRefTo(r, self_name, ref_name, ImportModule(ref_name).val)
    ELSE IF self_name \in DOMAIN r THEN r ELSE Put(r, self_name, EmptyMap)

\* _Builder.lazy_add_ref: self.add_named_ref(ref_name, import_module(ref_name));
\* the argument is evaluated first, so a failing import leaves add_named_ref
\* uncalled
LazyAddRefTo(r, self_name, ref_name) ==
    IF ImportModule(ref_name).kind = "value"
    THEN AddNamedRefTo(r, self_name, ref_name, ImportModule(ref_name).val)
    ELSE r

\* handle.lazy_add_ref(ref_name)
LazyAddRef(h, ref_name) ==
    /\ raising = NoExc
    /\ handles[h] # NoGroup
    /\ inserts < MaxInserts
    /\ refs' = LazyAddRefTo(refs, handles[h], ref_name)
    /\ raising' = IF ImportModule(ref_name).kind = "value" THEN NoExc
                  ELSE ImportModule(ref_name)
    /\ inserts' = IF ImportModule(ref_name).kind = "value" THEN inserts + 1 ELSE inserts
    /\ written' = IF ImportModule(ref_name).kind = "value"
                  THEN [written EXCEPT ![handles[h]][ref_name] =
                            Written(h, handles[h], ref_name, ImportModule(ref_name).val)]
                  ELSE written
    /\ last' = [op |-> "lazy_add_ref", h |-> h, group |-> handles[h],
                name |-> ref_name, before |-> refs,
                ret |-> IF ImportModule(ref_name).kind = "value" THEN ReturnSelf(h)
                        ELSE NoGroup]
    /\ UNCHANGED <<handles, deferred>>
    /\ UNCHANGED <<group_name, stack, cur, failed, entered>>

\* the event loop gives the thread to a chain (starts or resumes its task)
Resume(t) ==
    /\ cur = Idle
    /\ cur' = t
    /\ last' = NoLast
    /\ UNCHANGED <<group_name, stack, raising, failed, entered>>
    /\ UNCHANGED regVars

\* the running chain awaits: possible only where every frame is a coroutine
Await(t) ==
    /\ cur = t
    /\ raising = NoExc
    /\ AllAsync(t)
    /\ cur' = Idle
    /\ last' = NoLast
    /\ UNCHANGED <<group_name, stack, raising, failed, entered>>
    /\ UNCHANGED regVars

\* Await, with history: every frame of the chain is marked as having
\* suspended
AwaitMarked(t) ==
    /\ cur = t
    /\ raising = NoExc
    /\ AllAsync(t)
    /\ cur' = Idle
    /\ stack' = [stack EXCEPT ![t] =
                    [i \in 1..Len(stack[t]) |-> [stack[t][i] EXCEPT !.fresh = FALSE]]]
    /\ last' = NoLast
    /\ UNCHANGED <<group_name, raising, failed, entered>>
    /\ UNCHANGED regVars

\* arguments a wrapped callable is invoked with
Args == {"x", "y"}

\* value = func(*args, **kwargs): what func receives
ForwardArgs(a) == a

\* a wrapper that drops the value of func
WrapperResultNone(v) == "None"

\* return value: what the wrapper hands to its caller
WrapperResult(v) == v

\* the running chain invokes group(g, func): capture, then set
Call(t, g, kind) ==
    /\ cur = t
    /\ raising = NoExc
    /\ ~Entering(t)
    /\ CanNest(t)
    /\ kind = "async" => AllAsync(t)
    /\ stack' = [stack EXCEPT ![t] = Append(stack[t], Frame(g, kind))]
    /\ group_name' = g
    /\ entered' = entered \cup {t}
    /\ \E a \in Args :
          last' = [op |-> "call", task |-> t, args |-> a, received |-> ForwardArgs(a)]
    /\ UNCHANGED <<cur, raising, failed>>
    /\ UNCHANGED regVars

\* the wrapped callable returns: restore, then return the value
Return(t) ==
    /\ cur = t
    /\ raising = NoExc
    /\ stack[t] # <<>>
    /\ ~Entering(t)
    /\ group_name' = Restored(Top(t))
    /\ stack' = Pop(t)
    /\ \E v \in Values :
          last' = [op |-> "return", task |-> t, prior |-> Top(t).prior,
                   group |-> Top(t).group, kind |-> Top(t).kind,
                   value |-> v, result |-> WrapperResult(v)]
    /\ UNCHANGED <<cur, raising, failed, entered>>
    /\ UNCHANGED regVars

\* a using() that makes the current group's dict when it is missing
\* (a defaultdict-like registry)
DoUsingCreating(t, name) ==
    /\ cur = t
    /\ raising = NoExc
    /\ ~Entering(t)
    /\ last' = [op |-> "using", task |-> t, name |-> name, read |-> group_name,
                out |-> Using(name)]
    /\ raising' = IF Using(name).kind = "value" THEN NoExc ELSE Using(name)
    /\ refs' = IF group_name \in DOMAIN refs THEN refs
               ELSE Put(refs, group_name, EmptyMap)
    /\ UNCHANGED <<group_name, stack, cur, failed, entered>>
    /\ UNCHANGED <<handles, inserts, written, deferred>>

\* the running chain executes using(name)
DoUsing(t, name) ==
    /\ cur = t
    /\ raising = NoExc
    /\ ~Entering(t)
    /\ last' = [op |-> "using", task |-> t, name |-> name, read |-> group_name,
                out |-> Using(name)]
    /\ raising' = IF Using(name).kind = "value" THEN NoExc ELSE Using(name)
    /\ UNCHANGED <<group_name, stack, cur, failed, entered>>
    /\ UNCHANGED regVars

\* the wrapped callable raises an exception of its own
Raise(t) ==
    /\ cur = t
    /\ raising = NoExc
    /\ stack[t] # <<>>
    /\ ~Entering(t)
    /\ raising' = [kind |-> "Exception", val |-> ""]
    /\ last' = NoLast
    /\ UNCHANGED <<group_name, stack, cur, failed, entered>>
    /\ UNCHANGED regVars

\* a suspended wrapped coroutine is cancelled: the event loop resumes the task
\* by raising CancelledError at the await it is suspended on
Cancel(t) ==
    /\ cur = Idle
    /\ stack[t] # <<>>
    /\ cur' = t
    /\ raising' = [kind |-> "CancelledError", val |-> ""]
    /\ last' = NoLast
    /\ UNCHANGED <<group_name, stack, failed, entered>>
    /\ UNCHANGED regVars

\* the exception leaves inner / async_inner: the statements after the call
\* of func are skipped
Propagate(t) ==
    /\ cur = t
    /\ raising # NoExc
    /\ stack[t] # <<>>
    /\ stack' = Pop(t)
    /\ failed' = TRUE
    /\ last' = [op |-> "raise_exit", task |-> t, prior |-> Top(t).prior,
                group |-> Top(t).group, exc |-> raising]
    /\ UNCHANGED <<group_name, cur, raising, entered>>
    /\ UNCHANGED regVars

\* the code the exception has reached handles it (try / except)
Catch(t) ==
    /\ cur = t
    /\ raising # NoExc
    /\ raising' = NoExc
    /\ last' = NoLast
    /\ UNCHANGED <<group_name, stack, cur, failed, entered>>
    /\ UNCHANGED regVars

\* ---- chains on preemptively scheduled threads: the interpreter may switch
\* threads between any two statements of inner

\* the interpreter switches to thread t
Preempt(t) ==
    /\ cur # t
    /\ raising = NoExc
    /\ cur' = t
    /\ last' = NoLast
    /\ UNCHANGED <<group_name, stack, raising, failed, entered>>
    /\ UNCHANGED regVars

\* inner, line 64: original_group_name = _group_name
ThreadCapture(t, g) ==
    /\ cur = t
    /\ raising = NoExc
    /\ ~Entering(t)
    /\ CanNest(t)
    /\ stack' = [stack EXCEPT ![t] = Append(stack[t], Frame(g, "entering"))]
    /\ last' = NoLast
    /\ UNCHANGED <<group_name, cur, raising, failed, entered>>
    /\ UNCHANGED regVars

\* inner, line 65: _group_name = group_name; the body of func starts
ThreadSet(t) ==
    /\ cur = t
    /\ raising = NoExc
    /\ Entering(t)
    /\ group_name' = Top(t).group
    /\ stack' = [stack EXCEPT ![t][Len(stack[t])].kind = "sync"]
    /\ entered' = entered \cup {t}
    /\ last' = NoLast
    /\ UNCHANGED <<cur, raising, failed>>
    /\ UNCHANGED regVars

InitThreads ==
    /\ refs = TestRefs
    /\ group_name = "default"
    /\ handles = [h \in Handles |-> IF h = "h1" THEN "group_a" ELSE "group_b"]
    /\ stack = [t \in Tasks |-> <<>>]
    /\ cur \in Tasks
    /\ raising = NoExc
    /\ inserts = 2
    /\ deferred = [n \in Names |-> NoGroup]
    /\ written = [g \in Groups |-> [n \in Names |->
                    IF n = "value" /\ g = "group_a"
                    THEN [h |-> "h1", v |-> "A", prev |-> "", live |-> FALSE]
                    ELSE IF n = "value" /\ g = "group_b"
                    THEN [h |-> "h2", v |-> "B", prev |-> "", live |-> FALSE]
                    ELSE NoWrite]]
    /\ failed = FALSE
    /\ entered = {}
    /\ last = NoLast

NextThreads ==
    \/ \E t \in Tasks : Preempt(t)
    \/ \E t \in Tasks, g \in WrapGroups : ThreadCapture(t, g)
    \/ \E t \in Tasks : ThreadSet(t)
    \/ \E t \in Tasks : Return(t)
    \/ \E t \in Tasks, n \in Names : DoUsing(t, n)
    \/ \E t \in Tasks : Propagate(t)
    \/ \E t \in Tasks : Catch(t)

SpecThreads == InitThreads /\ [][NextThreads]_vars

\* the group the main chain names when it calls builder(name)
BuildGroups == {"group_a"}

\* the registry is built by the main chain, which also makes synchronous
\* wrapped calls and resolves references
MainChain == "t1"

InitBuild ==
    /\ refs = EmptyMap
    /\ group_name = "default"
    /\ handles = [h \in Handles |-> NoGroup]
    /\ stack = [t \in Tasks |-> <<>>]
    /\ cur = MainChain
    /\ raising = NoExc
    /\ inserts = 0
    /\ deferred = [n \in Names |-> NoGroup]
    /\ written = [g \in Groups |-> [n \in Names |-> NoWrite]]
    /\ failed = FALSE
    /\ entered = {}
    /\ last = NoLast

NextBuild ==
    \/ \E h \in Handles, arg \in BuildGroups \cup {NoGroup} : Builder(h, arg)
    \/ \E h \in Handles, n \in Names, v \in Values : AddNamedRef(h, n, v)
    \/ \E g \in WrapGroups : Call(MainChain, g, "sync")
    \/ Return(MainChain)
    \/ \E n \in Names : DoUsing(MainChain, n)
    \/ Propagate(MainChain)
    \/ Catch(MainChain)

SpecBuild == InitBuild /\ [][NextBuild]_vars

\* one chain of coroutines makes wrapped calls and awaits in them, while the
\* registry is extended through two builders that exist from the start
InitLive ==
    /\ refs = EmptyMap
    /\ group_name = "default"
    /\ handles = [h \in Handles |-> IF h = "h1" THEN "group_a" ELSE "group_b"]
    /\ stack = [t \in Tasks |-> <<>>]
    /\ cur = MainChain
    /\ raising = NoExc
    /\ inserts = 0
    /\ deferred = [n \in Names |-> NoGroup]
    /\ written = [g \in Groups |-> [n \in Names |-> NoWrite]]
    /\ failed = FALSE
    /\ entered = {}
    /\ last = NoLast

NextLive ==
    \/ \E h \in Handles, n \in Names, v \in Values : AddNamedRef(h, n, v)
    \/ Resume(MainChain)
    \/ Await(MainChain)
    \/ \E g \in WrapGroups : Call(MainChain, g, "async")
    \/ Return(MainChain)
    \/ \E n \in Names : DoUsing(MainChain, n)
    \/ Propagate(MainChain)
    \/ Catch(MainChain)

SpecLive == InitLive /\ [][NextLive]_vars

\* a group() that makes its group current when the wrapper is created
MakeGroupEager(t, g) ==
    /\ cur = t
    /\ raising = NoExc
    /\ ~Entering(t)
    /\ group_name' = g
    /\ last' = [op |-> "group", task |-> t, group |-> g]
    /\ UNCHANGED <<stack, cur, raising, failed, entered>>
    /\ UNCHANGED regVars

\* group(g, func): builds and returns the closure inner / async_inner; the
\* closure keeps g and func, nothing of the module is read or written
MakeGroup(t, g) ==
    /\ cur = t
    /\ raising = NoExc
    /\ ~Entering(t)
    /\ last' = [op |-> "group", task |-> t, group |-> g]
    /\ UNCHANGED scopeVars
    /\ UNCHANGED regVars

\* one synchronous chain creates wrappers, invokes them and resolves, while
\* the registry is filled through two builders that exist from the start
NextWrap ==
    \/ \E g \in WrapGroups : MakeGroup(MainChain, g)
    \/ \E g \in WrapGroups : Call(MainChain, g, "sync")
    \/ Return(MainChain)
    \/ \E n \in Names : DoUsing(MainChain, n)
    \/ Propagate(MainChain)
    \/ Catch(MainChain)
    \/ \E h \in Handles, n \in Names, v \in Values : AddNamedRef(h, n, v)

SpecWrap == InitLive /\ [][NextWrap]_vars

\* one synchronous chain makes wrapped calls and inserts, inside and outside
\* of them, through every method of two builders that exist from the start
NextInsert ==
    \/ \E h \in Handles, n \in Names, v \in Values : AddNamedRef(h, n, v)
    \/ \E h \in Handles, v \in Values : AddRef(h, v)
    \/ \E h \in Handles, n \in Names : LazyAddRef(h, n)
    \/ \E g \in WrapGroups : Call(MainChain, g, "sync")
    \/ Return(MainChain)
    \/ Propagate(MainChain)
    \/ Catch(MainChain)

SpecInsert == InitLive /\ [][NextInsert]_vars

\* the registry is filled through every method of _Builder and read back at
\* top level
NextRefs ==
    \/ \E h \in Handles, arg \in Groups \cup {NoGroup} : Builder(h, arg)
    \/ \E h \in Handles, n \in Names, v \in Values : AddNamedRef(h, n, v)
    \/ \E h \in Handles, v \in Values : AddRef(h, v)
    \/ \E h \in Handles, n \in Names : LazyAddRef(h, n)
    \/ \E n \in Names : DoUsing(MainChain, n)
    \/ Catch(MainChain)

SpecRefs == InitBuild /\ [][NextRefs]_vars

\* ---- the main program: one synchronous chain that reaches the wrappers
\* through a group switcher and resolves through deferred lookup handles

\* switcher[key](...): the callable a group switcher yields for key is
\* group(key, f), called at once
SwitcherCall(t, key) == Call(t, key, "sync")

\* sqeezz.Using(name): a handle that keeps the name only
MakeUsing(t, name) ==
    /\ cur = t
    /\ raising = NoExc
    /\ ~Entering(t)
    /\ deferred[name] = NoGroup
    /\ deferred' = [deferred EXCEPT ![name] = group_name]
    /\ last' = NoLast
    /\ UNCHANGED <<refs, handles, inserts, written>>
    /\ UNCHANGED scopeVars

\* handle.get: using(name) evaluated now
Get(t, name) ==
    /\ cur = t
    /\ raising = NoExc
    /\ ~Entering(t)
    /\ deferred[name] # NoGroup
    /\ last' = [op |-> "get", task |-> t, name |-> name, read |-> group_name,
                made |-> deferred[name], out |-> Using(name)]
    /\ raising' = IF Using(name).kind = "value" THEN NoExc ELSE Using(name)
    /\ UNCHANGED <<group_name, stack, cur, failed, entered>>
    /\ UNCHANGED regVars

InitMain ==
    /\ refs = TestRefs
    /\ group_name = "default"
    /\ handles = [h \in Handles |-> IF h = "h1" THEN "group_a" ELSE "group_b"]
    /\ stack = [t \in Tasks |-> <<>>]
    /\ cur = MainChain
    /\ raising = NoExc
    /\ inserts = 2
    /\ deferred = [n \in Names |-> NoGroup]
    /\ written = [g \in Groups |-> [n \in Names |->
                    IF n = "value" /\ g = "group_a"
                    THEN [h |-> "h1", v |-> "A", prev |-> "", live |-> FALSE]
                    ELSE IF n = "value" /\ g = "group_b"
                    THEN [h |-> "h2", v |-> "B", prev |-> "", live |-> FALSE]
                    ELSE NoWrite]]
    /\ failed = FALSE
    /\ entered = {}
    /\ last = NoLast

NextMain ==
    \/ \E key \in WrapGroups : SwitcherCall(MainChain, key)
    \/ Return(MainChain)
    \/ \E n \in Names : DoUsing(MainChain, n)
    \/ \E n \in Names : MakeUsing(MainChain, n)
    \/ \E n \in Names : Get(MainChain, n)
    \/ Raise(MainChain)
    \/ Propagate(MainChain)
    \/ Catch(MainChain)

SpecMain == InitMain /\ [][NextMain]_vars

\* ---- the wrappers statement by statement, under the event loop: a frame is
\* "entering" / "entering_async" after the capture, "sync" / "async" while
\* func runs, "exiting" after the restore

\* the chain is between two statements of a wrapper, not in the body of func
InWrapper(t) ==
    stack[t] # <<>> /\ Top(t).kind \in {"entering", "entering_async", "exiting"}

\* lines 51 / 64: original_group_name = _group_name
StepCapture(t, g, kind) ==
    /\ cur = t
    /\ ~InWrapper(t)
    /\ CanNest(t)
    /\ kind = "async" => AllAsync(t)
    /\ stack' = [stack EXCEPT ![t] = Append(stack[t],
                    Frame(g, IF kind = "async" THEN "entering_async" ELSE "entering"))]
    /\ last' = NoLast
    /\ UNCHANGED <<group_name, cur, raising, failed, entered>>
    /\ UNCHANGED regVars

\* lines 52 / 65: _group_name = group_name, then func is called
StepSet(t) ==
    /\ cur = t
    /\ stack[t] # <<>>
    /\ Top(t).kind \in {"entering", "entering_async"}
    /\ group_name' = Top(t).group
    /\ stack' = [stack EXCEPT ![t][Len(stack[t])].kind =
                    IF Top(t).kind = "entering" THEN "sync" ELSE "async"]
    /\ entered' = entered \cup {t}
    /\ last' = NoLast
    /\ UNCHANGED <<cur, raising, failed>>
    /\ UNCHANGED regVars

\* lines 54 / 67: func has returned; _group_name = original_group_name
StepRestore(t) ==
    /\ cur = t
    /\ stack[t] # <<>>
    /\ Top(t).kind \in {"sync", "async"}
    /\ group_name' = Restored(Top(t))
    /\ stack' = [stack EXCEPT ![t][Len(stack[t])].kind = "exiting"]
    /\ last' = [op |-> "restore", task |-> t, kind |-> Top(t).kind]
    /\ UNCHANGED <<cur, raising, failed, entered>>
    /\ UNCHANGED regVars

\* lines 55 / 68: return value
StepReturn(t) ==
    /\ cur = t
    /\ stack[t] # <<>>
    /\ Top(t).kind = "exiting"
    /\ stack' = Pop(t)
    /\ last' = [op |-> "step_return", task |-> t, group |-> Top(t).group]
    /\ UNCHANGED <<group_name, cur, raising, failed, entered>>
    /\ UNCHANGED regVars

NextSteps ==
    \/ \E t \in Tasks : Resume(t)
    \/ \E t \in Tasks : Await(t)
    \/ \E t \in Tasks, g \in WrapGroups, k \in {"sync", "async"} : StepCapture(t, g, k)
    \/ \E t \in Tasks : StepSet(t)
    \/ \E t \in Tasks : StepRestore(t)
    \/ \E t \in Tasks : StepReturn(t)

SpecSteps == Init /\ [][NextSteps]_vars

\* tasks of coroutines only, with the suspensions recorded in the frames
NextFirst ==
    \/ \E t \in Tasks : Resume(t)
    \/ \E t \in Tasks : AwaitMarked(t)
    \/ \E t \in Tasks, g \in WrapGroups : Call(t, g, "async")
    \/ \E t \in Tasks : Return(t)
    \/ \E t \in Tasks, n \in Names : DoUsing(t, n)
    \/ \E t \in Tasks : Propagate(t)
    \/ \E t \in Tasks : Catch(t)

SpecFirst == Init /\ [][NextFirst]_vars

Next ==
    \/ \E t \in Tasks : Resume(t)
    \/ \E t \in Tasks : Await(t)
    \/ \E t \in Tasks, g \in WrapGroups, k \in {"sync", "async"} : Call(t, g, k)
    \/ \E t \in Tasks : Return(t)
    \/ \E t \in Tasks, n \in Names : DoUsing(t, n)
    \/ \E t \in Tasks : Raise(t)
    \/ \E t \in Tasks : Cancel(t)
    \/ \E t \in Tasks : Propagate(t)
    \/ \E t \in Tasks : Catch(t)

Spec == Init /\ [][Next]_vars

\* ------------------------------------------------------------------ claims

Value(v) == [kind |-> "value", val |-> v]
KeyError(k) == [kind |-> "KeyError", val |-> k]
\* history: no insertion was ever made into group g / under name n of g
NeverBuilt(g) == \A n \in Names : written[g][n].h = NoGroup
NeverBound(g, n) == written[g][n].h = NoGroup
AllReturned == \A t \in Tasks : stack[t] = <<>>
AllSync(t) == \A i \in 1..Len(stack[t]) : stack[t][i].kind = "sync"
\* another chain is inside an asynchronous wrapped call of a group other than g
OtherAsyncInFlight(t, g) ==
    \E u \in Tasks \ {t} :
        /\ stack[u] # <<>>
        /\ stack[u][1].kind = "async"
        /\ stack[u][1].group # g

\* C1: of two interleaved asynchronous wrapped calls with distinct groups,
\* every using() inside one call gives the binding of that call's group (no
\* failure involved).
C1_OwnGroupAcrossSuspension ==
    (/\ last.op = "using"
     /\ ~failed
     /\ Len(stack[last.task]) = 1
     /\ Top(last.task).kind = "async"
     /\ OtherAsyncInFlight(last.task, Top(last.task).group))
    => last.out = Lookup(refs, Top(last.task).group, last.name)

\* C2: while a wrapped callable runs and no other chain has made wrapped
\* calls, every using() inside it reads the wrapper's group.
C2_UsingReadsWrapperGroup ==
    (/\ last.op = "using"
     /\ stack[last.task] # <<>>
     /\ entered = {last.task})
    => last.read = Top(last.task).group

\* C3: after a wrapped call returns normally the current group is the group
\* that was current when the call was made; and when one chain makes wrapped
\* calls one after another, none of which fails, the current group is back at
\* its initial value "default" after each of them.
C3_ReturnRestoresPrior ==
    /\ last.op = "return" => group_name = last.prior
    /\ (Cardinality(entered) <= 1 /\ ~failed /\ AllReturned) => group_name = "default"

\* C3 witness: a call wrapped with one group has returned into another,
\* non-initial group
C3_Witness ==
    /\ last.op = "return"
    /\ last.group # last.prior
    /\ last.prior # "default"
    /\ group_name = last.prior

\* C4: when the wrapped callable fails, the current group is back at its
\* value from before the call when the failure reaches the caller.
C4_FailureRestoresPrior ==
    last.op = "raise_exit" => group_name = last.prior

\* C5: with synchronous wrappers nested in one chain, using() inside the
\* inner call reads the inner group, the current group is the outer group
\* again right after the inner call returns, and it is the group from before
\* the outer call after the outer call returns.
C5_Nesting ==
    /\ (last.op = "using" /\ Len(stack[last.task]) = 2 /\ AllSync(last.task)
            /\ entered = {last.task})
        => last.read = Top(last.task).group
    /\ (last.op = "return" /\ Len(stack[last.task]) = 1 /\ AllSync(last.task)
            /\ entered = {last.task})
        => group_name = Top(last.task).group
    /\ (last.op = "return" /\ stack[last.task] = <<>> /\ entered = {last.task})
        => group_name = last.prior

\* C6: once all interleaved wrapped asynchronous calls have completed (none
\* of them failed), the current group is what it was before the first of
\* them started, "default".  Stated for the moment the last call completes,
\* that call's group being another one than the group it found current.
C6_DefaultAfterAllComplete ==
    (/\ AllReturned
     /\ ~failed
     /\ last.op = "return"
     /\ last.group # last.prior)
    => group_name = "default"

\* C7: a chain that has never made a wrapped call resolves against "default",
\* also while a wrapped call of another chain is suspended.
C7_UnwrappedReadsDefault ==
    (/\ last.op = "using"
     /\ last.task \notin entered
     /\ ~failed
     /\ \E u \in Tasks \ {last.task} : stack[u] # <<>>)
    => last.read = "default"

\* C8: using(N) with current group G returns the value of the latest
\* add_named_ref(N, V) made on a builder of G.
C8_UsingReturnsBound ==
    (last.op = "using" /\ ~NeverBound(last.read, last.name))
    => last.out = Value(written[last.read][last.name].v)

\* C8 witness: a using() inside a wrapped call has returned the value bound
\* in the wrapper's group
C8_Witness ==
    /\ last.op = "using"
    /\ stack[last.task] # <<>>
    /\ last.read = Top(last.task).group
    /\ ~NeverBound(last.read, last.name)
    /\ last.out = Value(written[last.read][last.name].v)

C10_RebuildMerges ==
    \A g \in Groups, n1 \in Names, n2 \in Names :
        (/\ n1 # n2
         /\ ~NeverBound(g, n1)
         /\ ~NeverBound(g, n2)
         /\ written[g][n1].h # written[g][n2].h)
        => Lookup(refs, g, n1) = Value(written[g][n1].v)

\* C10 witness: a group holds one name inserted through h1 and another
\* inserted through h2, and a using() under it has returned the first
C10_Witness ==
    /\ last.op = "using"
    /\ last.name = "value"
    /\ written[last.read]["value"].h = "h1"
    /\ written[last.read]["group_a"].h = "h2"
    /\ last.out = Value(written[last.read]["value"].v)

\* C11: inserting under a name that is already bound in the group replaces
\* the value and raises nothing: right after the second insertion the name
\* resolves to the new value, and a later using() under the group returns it.
C11_LastWriteWins ==
    /\ (last.op = "add_named_ref" /\ written[last.group][last.name].prev # "")
        => /\ raising = NoExc
           /\ Lookup(refs, last.group, last.name) = Value(last.ref)
    /\ (last.op = "using" /\ written[last.read][last.name].prev # "")
        => last.out = Value(written[last.read][last.name].v)

\* C11 witness: using() has returned a value that replaced a different one
C11_Witness ==
    /\ last.op = "using"
    /\ written[last.read][last.name].prev # ""
    /\ written[last.read][last.name].prev # written[last.read][last.name].v
    /\ last.out = Value(written[last.read][last.name].v)

\* C12: whenever no wrapped call is in flight on the calling chain, using(name)
\* resolves against the group "default"; builder() without argument addresses
\* that same group.
C12_DefaultWhenIdle ==
    /\ (last.op = "using" /\ stack[last.task] = <<>>)
        => /\ last.read = "default"
           /\ last.out = Lookup(refs, "default", last.name)
    /\ (last.op = "builder" /\ last.arg = NoGroup)
        => handles[last.h] = "default"

\* C13: when a suspended wrapped asynchronous call is cancelled, the restore
\* step still runs: once the cancellation has left the wrapper the active
\* group is the one that was active before the wrapped call was entered.
C13_CancelRestores ==
    (/\ last.op = "raise_exit"
     /\ raising.kind = "CancelledError")
    => group_name = last.prior

\* C14: synchronous wrapped calls of different groups running on separate
\* preemptively scheduled threads each resolve every using(name) against
\* their own group, whatever the interleaving of the threads' steps.
C14_ThreadsOwnGroup ==
    (/\ last.op = "using"
     /\ stack[last.task] # <<>>
     /\ ~failed
     /\ \A t \in Tasks : Len(stack[t]) <= 1)
    => last.out = Lookup(refs, Top(last.task).group, last.name)

\* C15: a callable obtained from a group switcher by key G behaves like
\* group(G, f): every using() inside the call resolves against the key's
\* group, and when the call is left the active group is what it was before
\* the call.
C15_SwitcherLikeGroup ==
    /\ (last.op = "using" /\ stack[last.task] # <<>>)
        => last.out = Lookup(refs, Top(last.task).group, last.name)
    /\ last.op \in {"return", "raise_exit"}
        => group_name = last.prior

C18_LazyAddRef ==
    last.op = "lazy_add_ref" =>
        /\ last.name \in Importable =>
              /\ raising = NoExc
              /\ Lookup(refs, last.group, last.name) = ImportModule(last.name)
              /\ refs = AddNamedRefTo(last.before, last.group, last.name,
                                      ImportModule(last.name).val)
        /\ last.name \notin Importable =>
              /\ raising = ImportModule(last.name)
              /\ raising.kind = "ModuleNotFoundError"
              /\ refs = last.before
              /\ DOMAIN refs = DOMAIN last.before

\* C18 witness: lazy_add_ref of an unresolvable identifier has failed on a
\* builder whose group was never built, and that group still does not exist
C18_Witness ==
    /\ last.op = "lazy_add_ref"
    /\ last.name \notin Importable
    /\ raising.kind = "ModuleNotFoundError"
    /\ last.group \notin DOMAIN refs
    /\ refs # EmptyMap

\* C19: a wrapped callable receives the arguments the wrapper was invoked
\* with, the wrapper returns exactly the value the callable returned
\* (synchronous and asynchronous wrappers alike), and a failure of the
\* callable reaches the caller as that same failure.
C19_ForwardsResult ==
    /\ last.op = "call" => last.received = last.args
    /\ last.op = "return" => last.result = last.value
    /\ last.op = "raise_exit" => (raising = last.exc /\ raising # NoExc)

\* C19 witness: an asynchronous wrapped call that was suspended while another
\* chain ran has returned its callable's value
C19_Witness ==
    /\ last.op = "return"
    /\ last.kind = "async"
    /\ last.result = last.value
    /\ last.value \in Values
    /\ entered = Tasks

\* C20: registry mutations are visible at once to every later resolution: a
\* binding is resolvable right after its insertion, and using(N) under
\* active group G returns the latest binding of (G, N), also when it was
\* inserted while a wrapped call for G was suspended.
C20_MutationsVisible ==
    /\ last.op = "add_named_ref"
        => Lookup(refs, last.group, last.name) = Value(last.ref)
    /\ (last.op = "using" /\ ~NeverBound(last.read, last.name))
        => last.out = Value(written[last.read][last.name].v)

\* C20 witness: a wrapped call for G was suspended, a binding of G was
\* replaced meanwhile, and the resumed call's using() returned the new value
C20_Witness ==
    /\ last.op = "using"
    /\ stack[last.task] # <<>>
    /\ Top(last.task).group = last.read
    /\ written[last.read][last.name].live
    /\ written[last.read][last.name].prev # ""
    /\ written[last.read][last.name].prev # written[last.read][last.name].v
    /\ last.out = Value(written[last.read][last.name].v)

\* C21: on one thread, every using(name) a wrapped asynchronous call makes
\* between its invocation and its first suspension resolves against the
\* call's own group, whatever wrapped calls of other tasks are suspended.
C21_BeforeFirstSuspension ==
    (/\ last.op = "using"
     /\ stack[last.task] # <<>>
     /\ Top(last.task).kind = "async"
     /\ Top(last.task).fresh)
    => last.out = Lookup(refs, Top(last.task).group, last.name)

\* C22: the wrapper has no suspension point of its own: a task that does not
\* hold the thread is suspended in the body of coroutines only, never inside
\* a synchronous wrapped call and never between a wrapper's capture and set
\* or restore and return; so no other task runs between those statements.
C22_NoWrapperSuspension ==
    /\ \A t \in Tasks : t # cur =>
          \A i \in 1..Len(stack[t]) : stack[t][i].kind = "async"
    /\ \A t \in Tasks : InWrapper(t) =>
          /\ cur = t
          /\ group_name = Top(t).original

\* C22 witness: a synchronous wrapped call has run from capture to restore
\* inside a task while the other task is suspended in a wrapped coroutine
C22_Witness ==
    /\ last.op = "restore"
    /\ last.kind = "sync"
    /\ InWrapper(last.task)
    /\ \E u \in Tasks \ {last.task} : stack[u] # <<>> /\ AllAsync(u)

\* C23: no operation removes a group or a binding: across every step a group
\* that exists still exists, a name bound in it is still bound, and its
\* value changes only when that same name is inserted again in that group.
C23_NothingRemoved ==
    [][\A g \in DOMAIN refs :
          /\ g \in DOMAIN refs'
          /\ \A n \in DOMAIN refs[g] :
                /\ n \in DOMAIN refs'[g]
                /\ refs'[g][n] # refs[g][n] =>
                      /\ last'.op \in {"add_named_ref", "add_ref", "lazy_add_ref"}
                      /\ last'.group = g
                      /\ n = IF last'.op = "add_ref" THEN NameOf(last'.ref)
                                                     ELSE last'.name]_vars

\* C23 witness: a second name has been inserted in a group and the name
\* inserted first is still bound there to its value
C23_Witness ==
    /\ last.op = "add_named_ref"
    /\ \E n \in Names \ {last.name} :
          /\ ~NeverBound(last.group, n)
          /\ Lookup(refs, last.group, n) = Value(written[last.group][n].v)
    /\ Lookup(refs, last.group, last.name) = Value(last.ref)

\* the name an insertion recorded in last was made under
LastName ==
    IF last.op = "add_ref" THEN NameOf(last.ref) ELSE last.name
\* the value an insertion recorded in last has bound
LastRef ==
    IF last.op = "lazy_add_ref" THEN ImportModule(last.name).val ELSE last.ref
\* last records an insertion that went through
Inserted ==
    /\ last.op \in {"add_named_ref", "add_ref", "lazy_add_ref"}
    /\ raising = NoExc

\* C24: every builder method returns the handle it was called on, and an
\* insertion through a handle of builder(G) goes into G whatever group is
\* current, also inside a call wrapped with another group.
C24_InsertsIntoOwnGroup ==
    Inserted =>
        /\ last.ret = last.h
        /\ last.group = handles[last.h]
        /\ Lookup(refs, handles[last.h], LastName) = Value(LastRef)
        /\ written[handles[last.h]][LastName].h = last.h

\* C24 witness: inside a call wrapped with one group an insertion was made
\* through the handle of the other group and is bound there, not in the
\* current group
C24_Witness ==
    /\ Inserted
    /\ stack[MainChain] # <<>>
    /\ group_name = Top(MainChain).group
    /\ handles[last.h] # group_name
    /\ last.ret = last.h
    /\ Lookup(refs, handles[last.h], LastName) = Value(LastRef)
    /\ Lookup(refs, group_name, LastName).kind = "KeyError"

\* C25: add_named_ref(N, V) on group G changes the binding of N in G and
\* nothing else: every other name of G and every binding of every other
\* group keeps its value, no other group or name appears, and the current
\* group stays as it is.
C25_OnlyThatBinding ==
    [][last'.op = "add_named_ref" =>
          /\ group_name' = group_name
          /\ Lookup(refs', last'.group, last'.name) = Value(last'.ref)
          /\ \A g \in Groups, n \in Names :
                (g # last'.group \/ n # last'.name)
                    => Lookup(refs', g, n).kind = Lookup(refs, g, n).kind
                       /\ (Lookup(refs, g, n).kind = "value"
                              => Lookup(refs', g, n) = Lookup(refs, g, n))
          /\ \A g \in Groups : g # last'.group => (g \in DOMAIN refs' <=> g \in DOMAIN refs)
          /\ DOMAIN refs' \subseteq Groups]_vars

\* C25 witness: inside a wrapped call a name was inserted in one group while
\* another group holds a binding, which is still there
C25_Witness ==
    /\ last.op = "add_named_ref"
    /\ stack[MainChain] # <<>>
    /\ group_name # "default"
    /\ \E g \in Groups \ {last.group}, n \in Names :
          /\ ~NeverBound(g, n)
          /\ Lookup(refs, g, n) = Value(written[g][n].v)

\* C26: using(name) is read-only: whether it returns or fails, the registry
\* is the same after it as before (no group and no entry is created for
\* what was missing) and so is the current group.
C26_UsingReadOnly ==
    [][last'.op = "using" =>
          /\ refs' = refs
          /\ DOMAIN refs' = DOMAIN refs
          /\ group_name' = group_name
          /\ last'.out = Lookup(refs, group_name, last'.name)]_vars

\* C26 witness: using() has failed under a group that was never built, and
\* the registry still is the one built before, without that group
C26_Witness ==
    /\ last.op = "using"
    /\ last.out = KeyError(last.read)
    /\ raising = last.out
    /\ last.read \notin DOMAIN refs
    /\ group_name = last.read
    /\ refs = TestRefs

\* C27: creating a wrapper with group(G, f) changes neither the registry nor
\* the current group and does not need G to exist; with a never-built G
\* invoking the wrapper does not fail by itself, an invocation whose body
\* makes no using() returns its value, and the failure comes only from a
\* using() executed inside the invocation.
C27_WrapperNeedsNoGroup ==
    /\ [][last'.op = "group" =>
              /\ refs' = refs
              /\ group_name' = group_name
              /\ raising' = NoExc]_vars
    /\ [](/\ last.op = "call" => raising = NoExc
          /\ (last.op = "return" /\ last.group \notin DOMAIN refs)
                => (raising = NoExc /\ last.result = last.value)
          /\ (last.op = "using" /\ last.read \notin DOMAIN refs)
                => (last.out = KeyError(last.read) /\ raising = last.out)
          /\ raising # NoExc => (failed \/ last.op = "using"))

\* C27 witness: a wrapper of a group that was never built has been invoked
\* and has returned its callable's value, no failure having occurred
C27_Witness ==
    /\ last.op = "return"
    /\ last.group \notin DOMAIN refs
    /\ raising = NoExc
    /\ ~failed
    /\ last.result = last.value
    /\ refs # EmptyMap

====
